---- MODULE Spec2Model ----
(***************************************************************************)
(* Retail360 self-checkout (src/app.py): catalog, carts, the transaction   *)
(* ledger behind one shared SQLite connection, and exit verification.      *)
(*                                                                         *)
(* Strings are sequences of tokens (<<" ", "EXIT-", "1">> is " EXIT-1").   *)
(* Money is an integer number of 1/10000 rupee, so that a price with two   *)
(* decimals times the 18% rate is exact; the code's binary floats are      *)
(* abstracted to these exact decimals.                                     *)
(***************************************************************************)
EXTENDS Integers, Sequences, FiniteSets, TLC

\* ------------------------------------------------------------- bounds
MaxClock == 1
MaxTxns == 2
MaxQty == 2
MaxRows == 2

Sessions == {1, 2}
ProductIds == {1, 2}
BarcodeNames == {"b1", "b2"}
\* Prices in 1/10000 rupee: 49.00 and 49.99.
Prices == {490000, 499900}
Suffixes == {"a", "b"}
\* What a customer types or a camera decodes as a barcode.
ScanInputs == {<<"b1">>, <<" ", "b1">>, <<"b9">>}

\* ------------------------------------------------------------ strings
\* str.strip(): drop the leading and the trailing whitespace.
RECURSIVE lstrip(_)
lstrip(s) == IF s # <<>> /\ Head(s) = " " THEN lstrip(Tail(s)) ELSE s

RECURSIVE rstrip(_)
rstrip(s) ==
    IF s # <<>> /\ s[Len(s)] = " " THEN rstrip(SubSeq(s, 1, Len(s) - 1)) ELSE s

strip(s) == rstrip(lstrip(s))

\* str.startswith(prefix) for a one-token prefix.
startswith(s, prefix) == s # <<>> /\ Head(s) = prefix

\* ------------------------------------------------------------- money
TAX_RATE == 18

\* x * TAX_RATE with TAX_RATE = 0.18, no rounding (lines 437 and 468).
TimesTaxRate(x) == (x * TAX_RATE) \div 100

\* round(x, 2): to the nearest 1/100 rupee, ties to even.
Round2(x) ==
    LET q == x \div 100
        r == x % 100
    IN  IF r < 50 THEN q * 100
        ELSE IF r > 50 THEN (q + 1) * 100
        ELSE IF q % 2 = 0 THEN q * 100 ELSE (q + 1) * 100

\* f"{x:.2f}": the amount as text with two decimals, written as its number
\* of paise ("5782" for 57.82).
Fmt2(x) == ToString(Round2(x) \div 100)

\* strftime('%Y%m%d%H%M%S') of the clock, which counts seconds.
strftime(t) == ToString(t)

VARIABLES
    products,           \* table products, as the shared connection sees it
    transactions,       \* table transactions, as the shared connection sees it
    transaction_items,  \* table transaction_items (index = autoincrement id)
    durable,            \* what the last conn.commit() made durable
    now,                \* the wall clock, in seconds
    cart,               \* st.session_state.cart of each session
    pc,                 \* where each session is inside save_transaction
    frame,              \* save_transaction's locals of each session
    shown,              \* what the checkout page last reported to each session
    exitShown,          \* what the exit page last reported
    loaded,             \* what the admin page last reported
    FPDF_OK,            \* whether fpdf could be imported
    PYZBAR_OK           \* whether pyzbar could be imported

vars == <<products, transactions, transaction_items, durable, now, cart, pc,
          frame, shown, exitShown, loaded, FPDF_OK, PYZBAR_OK>>

\* ------------------------------------------------------------- tables
\* INSERT OR REPLACE INTO products: the rows that hold the new row's primary
\* key or its UNIQUE barcode are deleted, then the row is inserted.
InsertOrReplace(table, row) ==
    {p \in table : p.product_id # row.product_id /\ p.barcode # row.barcode}
        \cup {row}

\* SELECT ... FROM products WHERE barcode = strip(barcode); fetchone().
\* The result is a set: empty for None, else the one matching row.
ProductByBarcodeIn(table, barcode) == {p \in table : p.barcode = strip(barcode)}

get_product_by_barcode(barcode) == ProductByBarcodeIn(products, barcode)

\* The transaction row whose exit_code is the stripped code, if any.
TransactionByExitCodeIn(txns, exit_code) ==
    {t \in txns : t.exit_code = strip(exit_code)}

\* transaction_items ti JOIN products p ON p.product_id = ti.product_id
\* WHERE ti.trans_id = trans_id, in rowid order.
JoinedItemsIn(items, prods, trans_id) ==
    SelectSeq(items, LAMBDA ti :
        /\ ti.trans_id = trans_id
        /\ \E p \in prods : p.product_id = ti.product_id)

NotFound == [found |-> FALSE, trans_id |-> <<>>, subtotal |-> 0,
             tax_amount |-> 0, total |-> 0, items |-> <<>>]

LookupIn(txns, items, prods, exit_code) ==
    IF TransactionByExitCodeIn(txns, exit_code) = {} THEN NotFound
    ELSE LET t == CHOOSE r \in TransactionByExitCodeIn(txns, exit_code) : TRUE
         IN  [found |-> TRUE, trans_id |-> t.trans_id, subtotal |-> t.subtotal,
              tax_amount |-> t.tax_amount, total |-> t.total,
              items |-> JoinedItemsIn(items, prods, t.trans_id)]

get_transaction_by_exit_code(exit_code) ==
    LookupIn(transactions, transaction_items, products, exit_code)

\* ---------------------------------------------------------------- cart
\* The cart is a dict in insertion order: a sequence of lines, one per key.
CartKeys(c) == {c[i].key : i \in DOMAIN c}

CartIndex(c, key) == CHOOSE i \in DOMAIN c : c[i].key = key

RECURSIVE SumSeq(_)
SumSeq(q) == IF q = <<>> THEN 0 ELSE Head(q) + SumSeq(Tail(q))

\* sum(item['price'] * item['qty'] for item in cart.values())
Subtotal(c) == SumSeq([i \in DOMAIN c |-> c[i].price * c[i].qty])

\* display_cart's summary: subtotal, tax and grand total.
CartSummary(c) ==
    [subtotal |-> Subtotal(c),
     tax_amount |-> TimesTaxRate(Subtotal(c)),
     total |-> Subtotal(c) + TimesTaxRate(Subtotal(c))]

\* process_payment's cart_items, handed to save_transaction.
CartItems(c) ==
    [i \in DOMAIN c |->
        [product_id |-> c[i].product_id, qty |-> c[i].qty,
         price |-> c[i].price, line_total |-> c[i].price * c[i].qty]]

NoFrame == [trans_id |-> <<>>, exit_code |-> <<>>, cart_items |-> <<>>,
            k |-> 0, subtotal |-> 0, tax_amount |-> 0, total |-> 0]

\* What the checkout page reports: kind is the message, error the exception
\* behind a "failed", trans_id the identifier the payment attempt generated,
\* committed whether save_transaction had returned.
NothingShown == [kind |-> "none", error |-> "none", trans_id |-> <<>>,
                 exit_code |-> <<>>, committed |-> FALSE, qr |-> <<>>,
                 invoice |-> FALSE, pdf |-> "none"]

\* The state after main() has run init_db() on a new database, in a process
\* where the imports of fpdf and of pyzbar ended as fpdf says and pyzbar says.
Start(fpdf, pyzbar) ==
    /\ products = {}
    /\ transactions = {}
    /\ transaction_items = <<>>
    /\ durable = [transactions |-> {}, transaction_items |-> <<>>]
    /\ now = 0
    /\ cart = [s \in Sessions |-> <<>>]
    /\ pc = [s \in Sessions |-> "idle"]
    /\ frame = [s \in Sessions |-> NoFrame]
    /\ shown = [s \in Sessions |-> NothingShown]
    /\ exitShown = [path |-> "none", code |-> <<>>, outcome |-> "none",
                    trans_id |-> <<>>]
    /\ loaded = [count |-> 0, skipped |-> <<>>, message |-> "none"]
    /\ FPDF_OK \in fpdf
    /\ PYZBAR_OK \in pyzbar

\* The clock advances by a second.
Tick ==
    /\ now < MaxClock
    /\ now' = now + 1
    /\ UNCHANGED <<products, transactions, transaction_items, durable, cart,
                   pc, frame, shown, exitShown, loaded, FPDF_OK, PYZBAR_OK>>

\* add_item_to_cart as it would be if a miss still put a line in the cart:
\* an unknown barcode becomes a line without product and price.
add_item_to_cart_keeps_unknown(s, barcode) ==
    /\ pc[s] = "idle"
    /\ IF barcode \in CartKeys(cart[s])
       THEN LET i == CartIndex(cart[s], barcode)
            IN  cart' = [cart EXCEPT ![s][i].qty = @ + 1]
       ELSE LET found == get_product_by_barcode(barcode)
                product == IF found # {} THEN CHOOSE p \in found : TRUE
                           ELSE [product_id |-> 0, barcode |-> barcode,
                                 price |-> 0]
            IN  cart' = [cart EXCEPT ![s] = Append(@,
                            [key |-> barcode,
                             product_id |-> product.product_id,
                             barcode |-> product.barcode,
                             price |-> product.price,
                             qty |-> 1,
                             line_total |-> product.price])]
    /\ shown' = [shown EXCEPT ![s] =
            [NothingShown EXCEPT !.kind =
                IF get_product_by_barcode(barcode) # {} THEN "added"
                ELSE "product_not_found"]]
    /\ UNCHANGED <<products, transactions, transaction_items, durable, now,
                   pc, frame, exitShown, loaded, FPDF_OK, PYZBAR_OK>>

\* add_item_to_cart(barcode) in session s.
add_item_to_cart(s, barcode) ==
    /\ pc[s] = "idle"
    /\ IF get_product_by_barcode(barcode) # {}
       THEN LET product == CHOOSE p \in get_product_by_barcode(barcode) : TRUE
            IN  /\ IF barcode \in CartKeys(cart[s])
                   THEN LET i == CartIndex(cart[s], barcode)
                        IN  cart' = [cart EXCEPT ![s][i].qty = @ + 1]
                   ELSE cart' = [cart EXCEPT ![s] = Append(@,
                            [key |-> barcode,
                             product_id |-> product.product_id,
                             barcode |-> product.barcode,
                             price |-> product.price,
                             qty |-> 1,
                             line_total |-> product.price])]
                /\ shown' = [shown EXCEPT ![s] =
                        [NothingShown EXCEPT !.kind = "added"]]
       ELSE /\ cart' = cart
            /\ shown' = [shown EXCEPT ![s] =
                    [NothingShown EXCEPT !.kind = "product_not_found"]]
    /\ UNCHANGED <<products, transactions, transaction_items, durable, now,
                   pc, frame, exitShown, loaded, FPDF_OK, PYZBAR_OK>>

\* display_cart's "Clear Cart" button.
ClearCart(s) ==
    /\ pc[s] = "idle"
    /\ cart[s] # <<>>
    /\ cart' = [cart EXCEPT ![s] = <<>>]
    /\ UNCHANGED <<products, transactions, transaction_items, durable, now,
                   pc, frame, shown, exitShown, loaded, FPDF_OK, PYZBAR_OK>>

\* ------------------------------------------------------- catalog load
\* A CSV cell after fillna(''): <<>> is the empty string, <<n>> the number n.
RequiredCols == {"product_id", "barcode", "product_name", "brand", "category",
                 "price"}

CsvRows ==
    [product_id : {<<i>> : i \in ProductIds},
     barcode : {<<b>> : b \in BarcodeNames},
     price : {<<>>} \cup {<<p>> : p \in Prices},
     stock_quantity : {<<>>, <<100>>}]

\* The column sets of the uploaded files: all columns, no stock_quantity
\* column, no price column.
CsvColumns == {RequiredCols \cup {"stock_quantity"}, RequiredCols,
               (RequiredCols \ {"price"}) \cup {"stock_quantity"}}

\* The VALUES tuple of one row is built without an exception: int(), float()
\* of an empty string raise ValueError, row['stock_quantity'] raises KeyError
\* when the frame has no such column.
RowConverts(columns, row) ==
    /\ Len(row.product_id) = 1
    /\ "price" \in columns
    /\ Len(row.price) = 1
    /\ "stock_quantity" \in columns
    /\ Len(row.stock_quantity) = 1

ProductRow(row) ==
    [product_id |-> row.product_id[1], barcode |-> row.barcode,
     price |-> row.price[1]]

\* The loop of load_products_from_csv over the rows, from the table and the
\* counters it has reached.
RECURSIVE LoadRows(_, _, _)
LoadRows(columns, rows, acc) ==
    IF rows = <<>> THEN acc
    ELSE LET row == Head(rows)
         IN  IF RowConverts(columns, row)
             THEN LoadRows(columns, Tail(rows),
                    [table |-> InsertOrReplace(acc.table, ProductRow(row)),
                     count |-> acc.count + 1,
                     skipped |-> acc.skipped])
             ELSE LoadRows(columns, Tail(rows),
                    [table |-> acc.table,
                     count |-> acc.count,
                     skipped |-> Append(acc.skipped, row.product_id)])

load_products_from_csv(df) ==
    LoadRows(df.columns, df.rows,
             [table |-> products, count |-> 0, skipped |-> <<>>])

\* admin_interface as it would be with ON DELETE CASCADE on the item rows'
\* product reference: replacing a product row deletes the item rows that
\* name it.
admin_interface_cascading(df) ==
    /\ IF RequiredCols \ df.columns # {}
       THEN /\ loaded' = [count |-> 0, skipped |-> <<>>,
                          message |-> "missing_columns"]
            /\ UNCHANGED <<products, durable, transaction_items>>
       ELSE LET r == load_products_from_csv(df)
                gone == {q.product_id : q \in products \ r.table}
                kept == SelectSeq(transaction_items,
                                  LAMBDA ti : ti.product_id \notin gone)
            IN  /\ products' = r.table
                /\ transaction_items' = kept
                /\ durable' = [transactions |-> transactions,
                               transaction_items |-> kept]
                /\ loaded' = [count |-> r.count, skipped |-> r.skipped,
                              message |-> IF r.count > 0 THEN "loaded"
                                          ELSE "failed"]
    /\ UNCHANGED <<transactions, now, cart, pc, frame, shown, exitShown,
                   FPDF_OK, PYZBAR_OK>>

\* admin_interface: a CSV is uploaded and "Load Products to Database" pressed.
\* load_products_from_csv ends with conn.commit(), which makes durable
\* whatever the shared connection holds.
admin_interface(df) ==
    /\ IF RequiredCols \ df.columns # {}
       THEN /\ loaded' = [count |-> 0, skipped |-> <<>>,
                          message |-> "missing_columns"]
            /\ UNCHANGED <<products, durable>>
       ELSE LET r == load_products_from_csv(df)
            IN  /\ products' = r.table
                /\ durable' = [transactions |-> transactions,
                               transaction_items |-> transaction_items]
                /\ loaded' = [count |-> r.count, skipped |-> r.skipped,
                              message |-> IF r.count > 0 THEN "loaded"
                                          ELSE "failed"]
    /\ UNCHANGED <<transactions, transaction_items, now, cart, pc, frame,
                   shown, exitShown, FPDF_OK, PYZBAR_OK>>

\* ------------------------------------------------------------ payment
\* f"TXN-{now:%Y%m%d%H%M%S}-{uuid4()[:8]}" and f"EXIT-{now:%Y%m%d%H%M%S}".
TransId(t, suffix) == <<"TXN-", strftime(t), "-", suffix>>

ExitCode(t) == <<"EXIT-", strftime(t)>>

\* f"EXIT:{exit_code}|TOTAL:{grand_total:.2f}|TXN:{trans_id}"
QrPayload(exit_code, total, trans_id) ==
    <<"EXIT:">> \o exit_code \o <<"|TOTAL:", Fmt2(total), "|TXN:">> \o trans_id

\* INSERT INTO transactions fails with IntegrityError when the primary key
\* trans_id or the UNIQUE exit_code is already in the table.
TransactionConflicts(txns, trans_id, exit_code) ==
    \E t \in txns : t.trans_id = trans_id \/ t.exit_code = exit_code

PaymentFailed(error, trans_id, committed) ==
    [NothingShown EXCEPT !.kind = "failed", !.error = error,
                         !.trans_id = trans_id, !.committed = committed]

\* process_payment, "Complete Payment" pressed, up to and including
\* save_transaction's INSERT INTO transactions. utr is the text entered,
\* suffix the uuid4 prefix, t2 the second read for the exit code.
process_payment(s, utr, suffix, t2) ==
    /\ pc[s] = "idle"
    /\ cart[s] # <<>>
    /\ t2 \in {now, now + 1}
    /\ IF utr = ""
       THEN /\ shown' = [shown EXCEPT ![s] =
                    [NothingShown EXCEPT !.kind = "enter_utr"]]
            /\ UNCHANGED <<transactions, pc, frame, now>>
       ELSE LET summary == CartSummary(cart[s])
                trans_id == TransId(now, suffix)
                exit_code == ExitCode(t2)
            IN  /\ now' = t2
                /\ IF TransactionConflicts(transactions, trans_id, exit_code)
                   THEN /\ shown' = [shown EXCEPT ![s] =
                                PaymentFailed("IntegrityError", trans_id, FALSE)]
                        /\ UNCHANGED <<transactions, pc, frame>>
                   ELSE /\ transactions' = transactions \cup
                                {[trans_id |-> trans_id,
                                  subtotal |-> summary.subtotal,
                                  tax_amount |-> summary.tax_amount,
                                  total |-> summary.total,
                                  utr |-> utr,
                                  exit_code |-> exit_code]}
                        /\ pc' = [pc EXCEPT ![s] = "items"]
                        /\ frame' = [frame EXCEPT ![s] =
                                [trans_id |-> trans_id,
                                 exit_code |-> exit_code,
                                 cart_items |-> CartItems(cart[s]),
                                 k |-> 1,
                                 subtotal |-> summary.subtotal,
                                 tax_amount |-> summary.tax_amount,
                                 total |-> summary.total]]
                        /\ UNCHANGED shown
    /\ UNCHANGED <<products, transaction_items, durable, cart, exitShown,
                   loaded, FPDF_OK, PYZBAR_OK>>

\* save_transaction's loop: INSERT INTO transaction_items for the next item.
InsertItem(s) ==
    /\ pc[s] = "items"
    /\ frame[s].k <= Len(frame[s].cart_items)
    /\ LET item == frame[s].cart_items[frame[s].k]
       IN  transaction_items' = Append(transaction_items,
                [trans_id |-> frame[s].trans_id,
                 product_id |-> item.product_id,
                 qty |-> item.qty,
                 unit_price |-> item.price,
                 line_total |-> item.line_total])
    /\ frame' = [frame EXCEPT ![s].k = @ + 1]
    /\ UNCHANGED <<products, transactions, durable, now, cart, pc, shown,
                   exitShown, loaded, FPDF_OK, PYZBAR_OK>>

\* A statement of save_transaction after the first INSERT raises (the store
\* refuses the write). process_payment's except reports the failure; nothing
\* rolls the connection's open transaction back.
StoreWriteFails(s) ==
    /\ pc[s] = "items"
    /\ pc' = [pc EXCEPT ![s] = "idle"]
    /\ shown' = [shown EXCEPT ![s] =
            PaymentFailed("StoreError", frame[s].trans_id, FALSE)]
    /\ frame' = [frame EXCEPT ![s] = NoFrame]
    /\ UNCHANGED <<products, transactions, transaction_items, durable, now,
                   cart, exitShown, loaded, FPDF_OK, PYZBAR_OK>>

\* save_transaction's conn.commit() and return, then the rest of
\* process_payment: the invoices, the exit pass, the cart reset.
\* pdfRaises: generate_pdf_invoice raises (only when fpdf is there to run).
CommitAndReceipt(s, pdfRaises) ==
    /\ pc[s] = "items"
    /\ frame[s].k > Len(frame[s].cart_items)
    /\ durable' = [transactions |-> transactions,
                   transaction_items |-> transaction_items]
    /\ pc' = [pc EXCEPT ![s] = "idle"]
    /\ frame' = [frame EXCEPT ![s] = NoFrame]
    /\ IF FPDF_OK /\ pdfRaises
       THEN /\ shown' = [shown EXCEPT ![s] =
                    PaymentFailed("RenderError", frame[s].trans_id, TRUE)]
            /\ cart' = cart
       ELSE /\ shown' = [shown EXCEPT ![s] =
                    [kind |-> "paid",
                     error |-> "none",
                     trans_id |-> frame[s].trans_id,
                     exit_code |-> frame[s].exit_code,
                     committed |-> TRUE,
                     qr |-> QrPayload(frame[s].exit_code, frame[s].total,
                                      frame[s].trans_id),
                     invoice |-> TRUE,
                     pdf |-> IF FPDF_OK THEN "document" ELSE "unavailable"]]
            /\ cart' = [cart EXCEPT ![s] = <<>>]
    /\ UNCHANGED <<products, transactions, transaction_items, now, exitShown,
                   loaded, FPDF_OK, PYZBAR_OK>>

\* ---------------------------------------------------- exit verification
\* verify_exit_code: approve with the transaction found, or deny.
verify_exit_code(path, exit_code) ==
    LET r == get_transaction_by_exit_code(exit_code)
    IN  [path |-> path, code |-> exit_code,
         outcome |-> IF r.found THEN "approved" ELSE "denied",
         trans_id |-> r.trans_id]

\* The camera path of exit_verification_interface for one decoded code.
ScannedOutcome(code) ==
    IF ~PYZBAR_OK
    THEN [path |-> "scan", code |-> code, outcome |-> "unavailable",
          trans_id |-> <<>>]
    ELSE IF startswith(code, "EXIT:") \/ startswith(code, "EXIT-")
    THEN verify_exit_code("scan", code)
    ELSE [path |-> "scan", code |-> code, outcome |-> "none",
          trans_id |-> <<>>]

\* The "Emergency Verify" path for a manually entered, non-empty code.
ManualOutcome(code) == verify_exit_code("manual", code)

\* The codes presented at the exit: exit codes of every second, with and
\* without surrounding whitespace, the exit passes of the ledger's rows, and
\* a code that is no exit code.
Padded(c) == {c, <<" ">> \o c, c \o <<" ">>}

ExitPasses ==
    {QrPayload(t.exit_code, t.total, t.trans_id) : t \in transactions}

ExitInputs ==
    UNION {Padded(ExitCode(t)) : t \in 0..MaxClock}
        \cup ExitPasses \cup {<<"b1">>}

\* The manual path as it would be with single-use exit codes: an approval
\* removes the approved row from the ledger.
ExitManual_single_use(code) ==
    /\ code # <<>>
    /\ exitShown' = ManualOutcome(code)
    /\ transactions' =
            IF ManualOutcome(code).outcome = "approved"
            THEN {t \in transactions :
                        t.trans_id # ManualOutcome(code).trans_id}
            ELSE transactions
    /\ durable' = [durable EXCEPT !.transactions = transactions']
    /\ UNCHANGED <<products, transaction_items, now, cart, pc, frame, shown,
                   loaded, FPDF_OK, PYZBAR_OK>>

ExitScan(code) ==
    /\ exitShown' = ScannedOutcome(code)
    /\ UNCHANGED <<products, transactions, transaction_items, durable, now,
                   cart, pc, frame, shown, loaded, FPDF_OK, PYZBAR_OK>>

ExitManual(code) ==
    /\ code # <<>>
    /\ exitShown' = ManualOutcome(code)
    /\ UNCHANGED <<products, transactions, transaction_items, durable, now,
                   cart, pc, frame, shown, loaded, FPDF_OK, PYZBAR_OK>>

\* ------------------------------------------------------ specifications
\* The bounds of a run: no cart line beyond MaxQty, no more than MaxTxns
\* rows in the ledger, no clock beyond MaxClock.
QtyBelowCap(s, barcode) ==
    \A i \in DOMAIN cart[s] : cart[s][i].key = barcode => cart[s][i].qty < MaxQty

LedgerBelowCap == Cardinality(transactions) < MaxTxns

\* Well-typed one-row files with every column, for the barcodes bs.
GoodFrames(bs) ==
    {[columns |-> RequiredCols \cup {"stock_quantity"}, rows |-> <<r>>] :
        r \in {x \in CsvRows : /\ x.price # <<>>
                               /\ x.stock_quantity # <<>>
                               /\ x.barcode \in bs}}

\* Every file of one to MaxRows rows.
RowSeqs == UNION {[1..n -> CsvRows] : n \in 1..MaxRows}

AllFrames == {[columns |-> c, rows |-> q] : c \in CsvColumns, q \in RowSeqs}

Scan(S, inputs) ==
    \E s \in S, b \in inputs : QtyBelowCap(s, b) /\ add_item_to_cart(s, b)

Clear(S) == \E s \in S : ClearCart(s)

Upload(frames) == \E df \in frames : admin_interface(df)

Pay(S) ==
    \E s \in S, utr \in {"", "utr"}, x \in Suffixes, t \in 0..MaxClock :
        LedgerBelowCap /\ process_payment(s, utr, x, t)

Save(S) ==
    \/ \E s \in S : InsertItem(s)
    \/ \E s \in S : StoreWriteFails(s)
    \/ \E s \in S, pdfRaises \in BOOLEAN : CommitAndReceipt(s, pdfRaises)

Exit ==
    \/ \E code \in ExitInputs : ExitScan(code)
    \/ \E code \in ExitInputs : ExitManual(code)

\* One customer session and the admin page: scans, catalog reloads, payments.
Init == Start(BOOLEAN, {TRUE})

Next ==
    \/ Tick
    \/ Scan({1}, {<<"b1">>})
    \/ Clear({1})
    \/ Upload(GoodFrames({<<"b1">>}))
    \/ Pay({1})
    \/ Save({1})

Spec == Init /\ [][Next]_vars

\* One customer session, one product, and the exit page.
InitExit == Start({TRUE}, BOOLEAN)

\* Both libraries installed.
InitBoth == Start({TRUE}, {TRUE})

OneProductFrames == {df \in GoodFrames({<<"b1">>}) :
                        /\ df.rows[1].product_id = <<1>>
                        /\ df.rows[1].price = <<499900>>}

NextExit ==
    \/ Tick
    \/ Scan({1}, {<<"b1">>})
    \/ Upload(OneProductFrames)
    \/ Pay({1})
    \/ Save({1})
    \/ Exit

SpecExit == InitExit /\ [][NextExit]_vars

\* Two customer sessions paying over the one shared connection.
NextShared ==
    \/ Tick
    \/ Scan(Sessions, {<<"b1">>})
    \/ Upload(OneProductFrames)
    \/ Pay(Sessions)
    \/ Save(Sessions)

SpecShared == InitBoth /\ [][NextShared]_vars

\* One customer session filling its cart while the catalog is reloaded.
NextCart ==
    \/ Scan({1}, ScanInputs)
    \/ Clear({1})
    \/ Upload(GoodFrames({<<"b1">>}))

SpecCart == InitBoth /\ [][NextCart]_vars

\* The admin page alone, with files of up to MaxRows rows.
NextLoad == Upload(AllFrames)

SpecLoad == InitBoth /\ [][NextLoad]_vars

\* -------------------------------------------------------------- claims
\* save_transaction has just returned in session s: this step was its
\* conn.commit().
Committed(s) == pc[s] = "items" /\ pc'[s] = "idle" /\ shown'[s].committed

\* What get_transaction_by_exit_code returns right after the step.
FoundAfter(exit_code) ==
    LookupIn(transactions', transaction_items', products', exit_code)

\* C1: a successful commit followed immediately by findByExitCode on the
\* returned exit code returns a transaction whose total, number of items and
\* item line totals are exactly the committed ones, whatever catalog reloads
\* happened between the scans and the payment.
C1_CommitThenFindMatches ==
    [][\A s \in Sessions :
        Committed(s) =>
            LET r == FoundAfter(frame[s].exit_code)
                sent == frame[s].cart_items
            IN  /\ r.found
                /\ r.total = frame[s].total
                /\ Len(r.items) = Len(sent)
                /\ \A i \in DOMAIN sent :
                        i \in DOMAIN r.items
                            /\ r.items[i].line_total = sent[i].line_total]_vars

\* The line totals of the item rows of transaction trans_id, added up.
ItemsTotal(items, trans_id) ==
    SumSeq([i \in DOMAIN items |->
                IF items[i].trans_id = trans_id THEN items[i].line_total ELSE 0])

\* C2: the ledger commit is atomic. In every durable state each transaction
\* row has all the item rows of its cart (they add up to its subtotal), no
\* item row is without its transaction row, and a commit that failed has no
\* durable row, also after later commits by other operations.
C2_LedgerCommitAtomic ==
    /\ \A t \in durable.transactions :
            ItemsTotal(durable.transaction_items, t.trans_id) = t.subtotal
    /\ \A i \in DOMAIN durable.transaction_items :
            \E t \in durable.transactions :
                t.trans_id = durable.transaction_items[i].trans_id
    /\ \A s \in Sessions :
            shown[s].error = "StoreError" =>
                \A t \in durable.transactions : t.trans_id # shown[s].trans_id

\* The outcomes of the two entry paths of the exit page for a code.
ExitOutcomes(code) == {ScannedOutcome(code), ManualOutcome(code)}

\* C3: with no payment in flight, the exit page approves a code only if a
\* committed (durable) transaction row holds the trimmed code as its exit
\* code; every other code, so every code that was never issued, is not
\* approved.
C3_ApprovedOnlyIfCommitted ==
    (\A s \in Sessions : pc[s] = "idle") =>
        \A code \in ExitInputs : \A o \in ExitOutcomes(code) :
            o.outcome = "approved" =>
                \E t \in durable.transactions : t.exit_code = strip(code)

\* C4: where scanning is available, the exit pass shown at payment
\* completion, scanned at the exit, is found in the ledger and approved as
\* the transaction that was paid.
C4_ExitPassApproved ==
    PYZBAR_OK =>
        \A s \in Sessions :
            shown[s].kind = "paid" =>
                /\ ScannedOutcome(shown[s].qr).outcome = "approved"
                /\ ScannedOutcome(shown[s].qr).trans_id = shown[s].trans_id

\* C5: generated identifiers do not collide: a commit is refused by the
\* primary key or the UNIQUE exit code only if the uuid part made its
\* transaction id equal to a stored one, never because two commits fall in
\* the same second.
C5_NoCollisionInOneSecond ==
    \A s \in Sessions :
        shown[s].error = "IntegrityError" =>
            \E t \in transactions : t.trans_id = shown[s].trans_id

\* A scan of session s has just put a product in the cart: a line was added
\* or a line's quantity grew.
ScanAdded(s) ==
    /\ cart'[s] # cart[s]
    /\ Len(cart'[s]) >= Len(cart[s])
    /\ shown'[s].kind = "added"

\* The barcode that was scanned: the key of the line the step added or changed.
ScannedKey(s) ==
    IF Len(cart'[s]) > Len(cart[s]) THEN cart'[s][Len(cart'[s])].key
    ELSE cart[s][CHOOSE i \in DOMAIN cart[s] : cart'[s][i] # cart[s][i]].key

LinesOf(c, product_id) == {i \in DOMAIN c : c[i].product_id = product_id}

QtyOf(c, product_id) ==
    SumSeq([i \in DOMAIN c |->
                IF c[i].product_id = product_id THEN c[i].qty ELSE 0])

\* C6: after every successful scan the cart holds exactly one line for the
\* product the scan resolved to, and the quantity held for that product is
\* one more than before: a repeat scan increments, and adds no second line.
C6_OneLinePerProduct ==
    [][\A s \in Sessions :
        ScanAdded(s) =>
            LET product == CHOOSE p \in get_product_by_barcode(ScannedKey(s)) : TRUE
            IN  /\ Cardinality(LinesOf(cart'[s], product.product_id)) = 1
                /\ QtyOf(cart'[s], product.product_id)
                        = QtyOf(cart[s], product.product_id) + 1]_vars

\* C7: the tax of the cart summary and of every stored transaction is
\* round(subtotal * 0.18, 2), and the total is subtotal + tax.
C7_TaxRoundedToTwoDecimals ==
    /\ \A s \in Sessions :
            LET summary == CartSummary(cart[s])
            IN  /\ summary.tax_amount = Round2(TimesTaxRate(summary.subtotal))
                /\ summary.total = summary.subtotal + summary.tax_amount
    /\ \A t \in transactions :
            /\ t.tax_amount = Round2(TimesTaxRate(t.subtotal))
            /\ t.total = t.subtotal + t.tax_amount

\* C8: a payment attempt reported as failed after it generated its
\* transaction has committed nothing: no durable transaction row carries the
\* attempt's identifier (so a retry of the same cart creates the transaction
\* once only).
C8_FailedPaymentCommitsNothing ==
    \A s \in Sessions :
        (shown[s].kind = "failed" /\ shown[s].error # "IntegrityError") =>
            \A t \in durable.transactions : t.trans_id # shown[s].trans_id

\* C9: on both entry paths of the exit page, a code with leading or trailing
\* whitespace is approved, with the same transaction, exactly when the
\* trimmed code is.
Approves(o) == o.outcome = "approved"

C9_WhitespaceSameOutcome ==
    \A code \in ExitInputs :
        /\ Approves(ScannedOutcome(code)) = Approves(ScannedOutcome(strip(code)))
        /\ ScannedOutcome(code).trans_id = ScannedOutcome(strip(code)).trans_id
        /\ Approves(ManualOutcome(code)) = Approves(ManualOutcome(strip(code)))
        /\ ManualOutcome(code).trans_id = ManualOutcome(strip(code)).trans_id

\* The rows of a frame whose required fields are well typed.
WellTypedRows(df) ==
    {i \in DOMAIN df.rows :
        Len(df.rows[i].product_id) = 1 /\ Len(df.rows[i].price) = 1}

\* C10: for every file with the required columns (stock_quantity may be
\* absent), the load upserts every row whose required fields are well typed,
\* skips and reports every other row, and returns the number of rows
\* upserted; a well-typed row that no later row replaces is in the catalog.
C10_LoadCountsWellTypedRows ==
    \A df \in AllFrames :
        RequiredCols \subseteq df.columns =>
            LET r == load_products_from_csv(df)
            IN  /\ r.count = Cardinality(WellTypedRows(df))
                /\ Len(r.skipped) = Len(df.rows) - Cardinality(WellTypedRows(df))
                /\ \A i \in WellTypedRows(df) :
                        (\A j \in WellTypedRows(df) :
                            j > i => /\ df.rows[j].product_id # df.rows[i].product_id
                                     /\ df.rows[j].barcode # df.rows[i].barcode)
                            => ProductRow(df.rows[i]) \in r.table

\* table holds every row of the sequence before, at the same place.
KeepsRows(before, after) ==
    /\ Len(after) >= Len(before)
    /\ \A i \in DOMAIN before : after[i] = before[i]

\* C11: the ledger is append-only. No step changes or removes a transaction
\* row or an item row, neither in what is durable nor in what the shared
\* connection shows; so the unit price stored with an item stays the price
\* of the sale whatever the catalog price becomes.
C11_LedgerAppendOnly ==
    [][/\ durable.transactions \subseteq durable'.transactions
       /\ KeepsRows(durable.transaction_items, durable'.transaction_items)
       /\ transactions \subseteq transactions'
       /\ KeepsRows(transaction_items, transaction_items')]_vars

\* A committed item whose product has another price in the catalog now.
C11_SoldPriceDiffersFromCatalog ==
    \E i \in DOMAIN durable.transaction_items :
        \E q \in products :
            /\ q.product_id = durable.transaction_items[i].product_id
            /\ q.price # durable.transaction_items[i].unit_price
            /\ \E t \in durable.transactions :
                    t.trans_id = durable.transaction_items[i].trans_id

\* C12: a scan of a barcode that matches no catalog product reports
\* product-not-found and changes no state. A step that reports
\* product-not-found leaves every cart, the catalog and the ledger as they
\* were; and a step that adds to a cart is a scan of a barcode the catalog
\* matched, reported as added.
C12_UnknownBarcodeChangesNothing ==
    [][\A s \in Sessions :
          /\ (shown'[s] # shown[s] /\ shown'[s].kind = "product_not_found")
                => /\ cart' = cart
                   /\ products' = products
                   /\ transactions' = transactions
                   /\ transaction_items' = transaction_items
                   /\ durable' = durable
          /\ (cart'[s] # cart[s] /\ Len(cart'[s]) >= Len(cart[s]))
                => /\ get_product_by_barcode(ScannedKey(s)) # {}
                   /\ shown'[s].kind = "added"]_vars

\* Product-not-found is on the screen of a session whose cart has a line,
\* while the catalog has products.
C12_NotFoundWithFilledCart ==
    \E s \in Sessions :
        /\ shown[s].kind = "product_not_found"
        /\ cart[s] # <<>>
        /\ products # {}

\* What a repeated verification of the code on the exit page gives, by the
\* entry path that showed it.
Reverified ==
    IF exitShown.path = "scan" THEN ScannedOutcome(exitShown.code)
    ELSE ManualOutcome(exitShown.code)

\* What the exit lookup reads: the tables of the shared connection and the
\* decoder capability.
LookupReads == <<products, transactions, transaction_items, PYZBAR_OK>>

\* C13: exit approval has no side effect and is repeatable. In every state
\* the code whose approval is on the exit page is approved when verified
\* again by the same entry path; a step that changes what the exit page
\* shows changes nothing in the ledger, the catalog or a cart; and every
\* step that changes something the lookup reads leaves approved, on either
\* entry path, each code that was approved before it.
C13_ApprovalRepeatableNoEffect ==
    /\ [](exitShown.outcome = "approved" => Approves(Reverified))
    /\ [][exitShown' # exitShown
            => UNCHANGED <<products, transactions, transaction_items,
                           durable, cart, pc, frame, shown, loaded, now>>
         ]_vars
    /\ [][LookupReads' # LookupReads
            => \A code \in ExitInputs :
                /\ Approves(ScannedOutcome(code))
                        => Approves(ScannedOutcome(code))'
                /\ Approves(ManualOutcome(code))
                        => Approves(ManualOutcome(code))'
         ]_vars

\* An approval is on the exit page while the ledger holds another sale too
\* and the clock has moved past the approved sale's second.
C13_ApprovedAmongOtherSales ==
    /\ exitShown.outcome = "approved"
    /\ \E t \in transactions : t.trans_id # exitShown.trans_id
    /\ \E t \in transactions :
            /\ t.trans_id = exitShown.trans_id
            /\ t.exit_code # ExitCode(now)

\* C14: the text invoice does not depend on the document capability. For
\* every payment whose commit succeeded the text invoice is on the screen,
\* whether the document renderer is available, unavailable or fails; and
\* without the capability it is reported unavailable and no document is
\* offered.
C14_TextInvoiceWithoutDocument ==
    \A s \in Sessions :
        /\ shown[s].committed => shown[s].invoice
        /\ (shown[s].committed /\ ~FPDF_OK) => shown[s].pdf = "unavailable"

\* C15: the bulk load upserts by product identifier only. Loading one
\* row that converts, with identifier X, into the catalog as it is leaves
\* the row's product in the catalog, leaves every product with another
\* identifier present and unchanged, and leaves no two products with the
\* same barcode.
C15_UpsertByIdentifierOnly ==
    \A df \in AllFrames :
        (/\ RequiredCols \subseteq df.columns
         /\ Len(df.rows) = 1
         /\ RowConverts(df.columns, df.rows[1])) =>
            LET r == load_products_from_csv(df)
                row == ProductRow(df.rows[1])
            IN  /\ row \in r.table
                /\ \A q \in products :
                        q.product_id # row.product_id => q \in r.table
                /\ \A q1, q2 \in r.table :
                        q1.barcode = q2.barcode => q1 = q2

====
